---- MODULE Spec2Model ----
(***************************************************************************)
(* MoonFit storefront bot: the payment-verification and order-settlement   *)
(* protocol (ton_payments + the order / discount / cart transitions it     *)
(* drives), second-generation modules (main_1753438860935.py and the       *)
(* database / cart / discount managers it imports).                        *)
(*                                                                         *)
(* Money is counted in micro-TON (1 TON = 1000000); every amount of the    *)
(* model is a whole number of micro-TON, so the float arithmetic of the    *)
(* source is exact on them.  SQL NULL / Python None is "None" in string    *)
(* columns and 0 in the order_id key of the session data.                  *)
(***************************************************************************)
EXTENDS Integers, Sequences, FiniteSets, TLC

VARIABLES
    products,        \* products table: id -> [price, stock_quantity, active]
    cart,            \* users.cart_data: user -> sequence of cart items
    session,         \* user_sessions: user -> [state, data keys]
    orders,          \* orders table, row id = index (AUTOINCREMENT)
    discount_codes,  \* discount_codes table: code -> row
    discount_usage,  \* discount_usage table, row id = index
    ledger,          \* the wallet's transactions, most recent first
    calls,           \* check_payment_status coroutines in flight, per user and slot
    settlements,     \* order id -> number of times the paid branch ran for it
    answers,         \* user -> the outcome check_payment_status last reported
    verify,          \* one call of verify_payment with its arguments and result
    evaluation,      \* the last apply_discount call: its arguments and result
    g1_products,     \* first generation (database.py): products table
    g1_carts,        \* first generation: carts table, row id = index
    g1_orders        \* first generation: orders table, row id = index

vars == <<products, cart, session, orders, discount_codes, discount_usage,
          ledger, calls, settlements, answers, verify, evaluation,
          g1_products, g1_carts, g1_orders>>

\* the state of the first-generation store
gen1 == <<g1_products, g1_carts, g1_orders>>

\* the state of the second-generation store and of its coroutines
gen2 == <<products, cart, session, orders, discount_codes, discount_usage,
          calls, settlements, answers>>

----------------------------------------------------------------------------
(* Bounds of the model *)

MaxOrders == 2
MaxLedger == 1
MaxCheckoutOrders == 1
MaxMatchLedger == 2
MaxCartRows == 3
MaxG1Orders == 2
MaxPaidLedger == 2

(* Program constants *)

Tolerance == 1000
PriceEpsilon == 1000
CheckInterval == 10
CheckTimeout == 5
FetchLimit == 50
MAX_CART_ITEMS == 20

None == "None"
Wallet == "UQBvVEFeJdKt9KR8KXKc8m4TGWqlDNjHGDZF4OMQ8K9XN9KX"

AllUsers == {7, 8}
Shoppers == {7}
Slots == {1, 2}
Products == {1, 2}
ShopProducts == {1}
Codes == {"SAVE20", "HALF"}
CodeInputs == {"SAVE20", "save20", "HALF", "BOGUS"}
ShopCodeInputs == {"save20", "BOGUS"}

----------------------------------------------------------------------------
(* Small helpers *)

Min(a, b) == IF a <= b THEN a ELSE b

Abs(a) == IF a < 0 THEN -a ELSE a

RECURSIVE SumSeq(_)
SumSeq(s) == IF s = <<>> THEN 0 ELSE Head(s) + SumSeq(Tail(s))

\* str.upper() on the inputs of the model
Upper(code) == IF code = "save20" THEN "SAVE20" ELSE code

----------------------------------------------------------------------------
(* Database: sessions *)

\* the data dict of a session; an absent key is None, -1 (discount_amount)
\* or 0 (order_id, amount)
EmptyData == [discount_code |-> None, discount_amount |-> -1,
              order_id |-> 0, amount |-> 0, comment |-> None]

NoSession == [state |-> None, data |-> EmptyData]

\* db.set_user_state: INSERT OR REPLACE of the whole row
set_user_state(u, state, data) == [session EXCEPT ![u] = [state |-> state, data |-> data]]

\* db.clear_user_state: DELETE of the row
clear_user_state(sess, u) == [sess EXCEPT ![u] = NoSession]

\* state_data.get('discount_amount', 0)
GetDiscountAmount(data) == IF data.discount_amount = -1 THEN 0 ELSE data.discount_amount

----------------------------------------------------------------------------
(* Database: catalog and cart *)

\* db.get_product: only active rows are returned (found = a row came back)
get_product(p) ==
    IF p \in DOMAIN products /\ products[p].active
    THEN [found |-> TRUE, price |-> products[p].price,
          stock_quantity |-> products[p].stock_quantity]
    ELSE [found |-> FALSE, price |-> 0, stock_quantity |-> 0]

NewItem(p, product, q) ==
    [product_id |-> p, price |-> product.price, quantity |-> q,
     total_price |-> product.price * q]

IndexOf(c, p) ==
    IF \E i \in 1..Len(c) : c[i].product_id = p
    THEN CHOOSE i \in 1..Len(c) : c[i].product_id = p /\ \A j \in 1..(i-1) : c[j].product_id # p
    ELSE 0

RemoveAt(c, i) == SubSeq(c, 1, i-1) \o SubSeq(c, i+1, Len(c))

\* CartManager.get_cart_summary
get_cart_summary(c) ==
    [items |-> c,
     total_items |-> SumSeq([i \in 1..Len(c) |-> c[i].quantity]),
     total_price |-> SumSeq([i \in 1..Len(c) |-> c[i].total_price]),
     is_empty |-> c = <<>>]

\* CartManager.validate_cart: the loop over the cart; the result is
\* [ok, cart] where cart is what the users row holds afterwards
RECURSIVE ValidateItems(_, _, _)
ValidateItems(c, updated, errors) ==
    IF c = <<>> THEN [updated |-> updated, errors |-> errors]
    ELSE LET item == Head(c)
             product == get_product(item.product_id)
         IN  IF ~product.found
             THEN ValidateItems(Tail(c), updated, errors + 1)
             ELSE IF product.stock_quantity < item.quantity /\ product.stock_quantity = 0
             THEN ValidateItems(Tail(c), updated, errors + 1)
             ELSE LET q == IF product.stock_quantity < item.quantity
                           THEN product.stock_quantity ELSE item.quantity
                      e1 == IF product.stock_quantity < item.quantity THEN 1 ELSE 0
                      changed == Abs(product.price - item.price) > PriceEpsilon
                      pr == IF changed THEN product.price ELSE item.price
                      e2 == IF changed THEN 1 ELSE 0
                      it == [product_id |-> item.product_id, price |-> pr,
                             quantity |-> q, total_price |-> q * pr]
                  IN  ValidateItems(Tail(c), Append(updated, it), errors + e1 + e2)

validate_cart(c) ==
    LET r == ValidateItems(c, <<>>, 0)
    IN  [ok |-> r.errors = 0, cart |-> IF r.errors > 0 THEN r.updated ELSE c]

\* a prepare_order_data without the test for an empty cart
prepare_order_dataAnyCart(c) ==
    LET summary == get_cart_summary(c)
    IN  [ok |-> validate_cart(c).ok,
         products |-> summary.items, total_amount |-> summary.total_price,
         total_items |-> summary.total_items]

\* CartManager.prepare_order_data: ok = FALSE stands for the None result
prepare_order_data(c) ==
    LET summary == get_cart_summary(c)
    IN  [ok |-> ~summary.is_empty /\ validate_cart(c).ok,
         products |-> summary.items, total_amount |-> summary.total_price,
         total_items |-> summary.total_items]

\* what prepare_order_data leaves in users.cart_data: validate_cart runs
\* only on a non-empty cart
CartAfterPrepare(c) == IF c = <<>> THEN c ELSE validate_cart(c).cart

----------------------------------------------------------------------------
(* Database: discount codes *)

\* db.get_discount_code: SELECT ... WHERE code = ? AND active = TRUE
discount_found(code) == code \in DOMAIN discount_codes /\ discount_codes[code].active

UsageCount(code_id, u) ==
    Cardinality({i \in 1..Len(discount_usage) :
                   discount_usage[i].code_id = code_id /\ discount_usage[i].user_id = u})

\* a validator without the per-user check
validate_discount_codeAnyUser(code, u) ==
    IF ~discount_found(code) THEN "Discount code not found or inactive"
    ELSE LET d == discount_codes[code]
         IN  IF d.expired THEN "Discount code has expired"
             ELSE IF d.usage_limit # -1 /\ d.usage_limit # 0 /\ d.used_count >= d.usage_limit
                  THEN "Discount code usage limit reached"
             ELSE "Valid discount code"

\* db.validate_discount_code: the message of the first failing check
validate_discount_code(code, u) ==
    IF ~discount_found(code) THEN "Discount code not found or inactive"
    ELSE LET d == discount_codes[code]
         IN  IF d.expired THEN "Discount code has expired"
             \* "if discount['usage_limit'] and ...": a NULL (-1) or 0 limit is falsy
             ELSE IF d.usage_limit # -1 /\ d.usage_limit # 0 /\ d.used_count >= d.usage_limit
                  THEN "Discount code usage limit reached"
             ELSE IF UsageCount(d.id, u) > 0
                  THEN "You have already used this discount code"
             ELSE "Valid discount code"

\* an apply_discount that takes every discount_value as a fixed amount
apply_discountAsFixed(code, u, total_amount) ==
    IF validate_discount_code(Upper(code), u) # "Valid discount code"
    THEN [success |-> FALSE, discount_amount |-> 0,
          message |-> validate_discount_code(Upper(code), u)]
    ELSE [success |-> TRUE, message |-> "Applied",
          discount_amount |-> Min(discount_codes[Upper(code)].discount_value, total_amount)]

\* an apply_discount that does not cap the amount by the total
apply_discountUncapped(code, u, total_amount) ==
    IF validate_discount_code(Upper(code), u) # "Valid discount code"
    THEN [success |-> FALSE, discount_amount |-> 0,
          message |-> validate_discount_code(Upper(code), u)]
    ELSE LET d == discount_codes[Upper(code)]
         IN  [success |-> TRUE, message |-> "Applied",
              discount_amount |-> IF d.discount_type = "percentage"
                                  THEN (total_amount * d.discount_value) \div 100
                                  ELSE d.discount_value]

\* DiscountManager.apply_discount: [success, discount_amount, message]
apply_discount(code, u, total_amount) ==
    IF validate_discount_code(Upper(code), u) # "Valid discount code"
    THEN [success |-> FALSE, discount_amount |-> 0,
          message |-> validate_discount_code(Upper(code), u)]
    ELSE LET d == discount_codes[Upper(code)]
             amount == IF d.discount_type = "percentage"
                       THEN (total_amount * d.discount_value) \div 100
                       ELSE Min(d.discount_value, total_amount)
         IN  [success |-> TRUE, discount_amount |-> Min(amount, total_amount),
              message |-> "Applied"]

\* db.use_discount_code: the usage row and the used_count increment
UsageAfterUse(code_id, u, o) ==
    Append(discount_usage, [code_id |-> code_id, user_id |-> u, order_id |-> o])

CodesAfterUse(code) ==
    [discount_codes EXCEPT ![code].used_count = discount_codes[code].used_count + 1]

----------------------------------------------------------------------------
(* Database: orders *)

\* db.create_order: the new row; status and payment_hash take their defaults
create_order(u, prods, total_amount, discount_code, discount_amount, final_amount) ==
    [user_id |-> u, products |-> prods, total_amount |-> total_amount,
     discount_code |-> discount_code, discount_amount |-> discount_amount,
     final_amount |-> final_amount, status |-> "pending", payment_hash |-> None]

\* db.update_order_status: payment_hash is written only when it is truthy
update_order_status(o, status, payment_hash) ==
    IF o \in 1..Len(orders)
    THEN [orders EXCEPT ![o] =
            IF payment_hash # None /\ payment_hash # ""
            THEN [orders[o] EXCEPT !.status = status, !.payment_hash = payment_hash]
            ELSE [orders[o] EXCEPT !.status = status]]
    ELSE orders

----------------------------------------------------------------------------
(* TON payments *)

\* a memo without the separator between the two ids
CommentUnseparated(o, u) == "ORDER_" \o ToString(o) \o ToString(u)

\* the memo of an order: f"ORDER_{order_id}_{user_id}"
Comment(o, u) == "ORDER_" \o ToString(o) \o "_" \o ToString(u)

\* an incoming test that lets every transaction through
is_incoming_transactionAny(tx) == TRUE

\* TONPaymentProcessor._is_incoming_transaction
is_incoming_transaction(tx) == tx.has_in_msg /\ tx.destination = Wallet

\* TONPaymentProcessor._get_transaction_amount, in micro-TON
get_transaction_amount(tx) == IF tx.has_in_msg THEN tx.value ELSE 0

\* a decoder that reads a missing memo as a default memo
get_transaction_commentDefault(tx) ==
    IF ~tx.has_in_msg THEN ""
    ELSE IF tx.msg_type = "msg.dataText" /\ tx.text # "" THEN tx.text
    ELSE IF tx.message # "" THEN tx.message
    ELSE Comment(42, 7)

\* TONPaymentProcessor._get_transaction_comment
get_transaction_comment(tx) ==
    IF ~tx.has_in_msg THEN ""
    ELSE IF tx.msg_type = "msg.dataText" /\ tx.text # "" THEN tx.text
    ELSE IF tx.message # "" THEN tx.message
    ELSE ""

\* a matcher that looks at the amount only
TxMatchesAmountOnly(tx, expected_amount, comment) ==
    /\ is_incoming_transaction(tx)
    /\ Abs(get_transaction_amount(tx) - expected_amount) < Tolerance

\* the test of verify_payment's inner loop on one transaction
TxMatches(tx, expected_amount, comment) ==
    /\ is_incoming_transaction(tx)
    /\ Abs(get_transaction_amount(tx) - expected_amount) < Tolerance
    /\ get_transaction_comment(tx) = comment

\* get_transaction_history(limit): the most recent transactions
Window(txs, limit) == SubSeq(txs, 1, Min(limit, Len(txs)))

\* index of the last transaction of the listing that matches, 0 if none
LastMatch(txs, expected_amount, comment) ==
    IF \E i \in 1..Len(txs) : TxMatches(txs[i], expected_amount, comment)
    THEN CHOOSE i \in 1..Len(txs) :
           /\ TxMatches(txs[i], expected_amount, comment)
           /\ \A j \in (i+1)..Len(txs) : ~TxMatches(txs[j], expected_amount, comment)
    ELSE 0

\* index of the first transaction of the listing that matches, 0 if none
FirstMatch(txs, expected_amount, comment) ==
    IF \E i \in 1..Len(txs) : TxMatches(txs[i], expected_amount, comment)
    THEN CHOOSE i \in 1..Len(txs) :
           /\ TxMatches(txs[i], expected_amount, comment)
           /\ \A j \in 1..(i-1) : ~TxMatches(txs[j], expected_amount, comment)
    ELSE 0

\* what one fetch can return: the window, or [] when the request fails
FetchResults == {Window(ledger, FetchLimit), <<>>}

\* one pass of verify_payment's for loop over a fetched listing
verify_poll(txs, expected_amount, comment) ==
    LET i == FirstMatch(txs, expected_amount, comment)
    IN  [success |-> i # 0, tx_hash |-> IF i # 0 THEN txs[i].hash ELSE None]

\* a while condition without a deadline
LoopContinuesAlways(elapsed, timeout) == TRUE

\* verify_payment's while condition, elapsed seconds since start_time
LoopContinues(elapsed, timeout) == elapsed < timeout

----------------------------------------------------------------------------
(* Initial state: the store after set-up, every user has sent /start *)

IdleCall == [pc |-> "idle", order_id |-> 0, amount |-> 0, comment |-> None,
             discount_code |-> None, elapsed |-> 0]

IdleVerify == [pc |-> "idle", expected_amount |-> 0, comment |-> None, timeout |-> 0,
               elapsed |-> 0, success |-> FALSE, tx_hash |-> None, fetches |-> 0,
               failed |-> 0]

\* no apply_discount call was made yet
NoEvaluation ==
    [code |-> None, user_id |-> 0, total_amount |-> 0, success |-> FALSE,
     message |-> None, discount_amount |-> 0]

InitG1Products ==
    (1 :> [price |-> 30, stock_quantity |-> 2]) @@
    (2 :> [price |-> 60, stock_quantity |-> 1])

InitProducts ==
    (1 :> [price |-> 2000000, stock_quantity |-> 2, active |-> TRUE]) @@
    (2 :> [price |-> 3000000, stock_quantity |-> 1, active |-> TRUE])

InitDiscountCodes ==
    ("SAVE20" :> [id |-> 1, discount_type |-> "fixed", discount_value |-> 1500000,
                  usage_limit |-> 1, used_count |-> 0, expired |-> FALSE,
                  active |-> TRUE]) @@
    ("HALF" :> [id |-> 2, discount_type |-> "percentage", discount_value |-> 50,
                usage_limit |-> -1, used_count |-> 0, expired |-> FALSE,
                active |-> TRUE])

\* the codes created with expiry_days (an expiry_date that can pass)
CodesWithExpiry == {"HALF"}

Init ==
    /\ products = InitProducts
    /\ cart = [u \in AllUsers |-> <<>>]
    /\ session = [u \in AllUsers |-> NoSession]
    /\ orders = <<>>
    /\ discount_codes = InitDiscountCodes
    /\ discount_usage = <<>>
    /\ ledger = <<>>
    /\ calls = [u \in AllUsers |-> [s \in Slots |-> IdleCall]]
    /\ settlements = <<>>
    /\ answers = [u \in AllUsers |-> None]
    /\ verify = IdleVerify
    /\ evaluation = NoEvaluation
    /\ g1_products = InitG1Products
    /\ g1_carts = <<>>
    /\ g1_orders = <<>>

----------------------------------------------------------------------------
(* Cart handlers *)

\* MoonFitBot.add_to_cart -> CartManager.add_to_cart(user, product, 1)
CartAfterAdd(c, p) ==
    LET product == get_product(p)
        i == IndexOf(c, p)
    IN  IF ~product.found \/ product.stock_quantity < 1 THEN c
        ELSE IF i # 0
             THEN IF c[i].quantity + 1 > product.stock_quantity THEN c
                  ELSE [c EXCEPT ![i] = [c[i] EXCEPT !.quantity = c[i].quantity + 1,
                                          !.total_price = (c[i].quantity + 1) * c[i].price]]
             ELSE Append(c, NewItem(p, product, 1))

AddToCart(u, p) ==
    /\ CartAfterAdd(cart[u], p) # cart[u]
    /\ cart' = [cart EXCEPT ![u] = CartAfterAdd(cart[u], p)]
    /\ UNCHANGED <<verify, evaluation, gen1>>
    /\ UNCHANGED <<products, session, orders, discount_codes, discount_usage,
                   ledger, calls, settlements, answers>>

\* MoonFitBot.remove_from_cart -> CartManager.remove_from_cart(user, product, 1)
CartAfterRemove(c, p) ==
    LET i == IndexOf(c, p)
    IN  IF i = 0 THEN c
        ELSE IF c[i].quantity <= 1 THEN RemoveAt(c, i)
        ELSE [c EXCEPT ![i] = [c[i] EXCEPT !.quantity = c[i].quantity - 1,
                                !.total_price = (c[i].quantity - 1) * c[i].price]]

RemoveFromCart(u, p) ==
    /\ IndexOf(cart[u], p) # 0
    /\ cart' = [cart EXCEPT ![u] = CartAfterRemove(cart[u], p)]
    /\ UNCHANGED <<verify, evaluation, gen1>>
    /\ UNCHANGED <<products, session, orders, discount_codes, discount_usage,
                   ledger, calls, settlements, answers>>

----------------------------------------------------------------------------
(* Menu and discount handlers *)

\* MoonFitBot.show_main_menu ("back_to_home"): the session row is deleted
ShowMainMenu(u) ==
    /\ session[u] # NoSession
    /\ session' = clear_user_state(session, u)
    /\ UNCHANGED <<verify, evaluation, gen1>>
    /\ UNCHANGED <<products, cart, orders, discount_codes, discount_usage,
                   ledger, calls, settlements, answers>>

\* MoonFitBot.apply_discount_start: set_user_state(user, 'APPLYING_DISCOUNT')
ApplyDiscountStart(u) ==
    /\ session' = set_user_state(u, "APPLYING_DISCOUNT", EmptyData)
    /\ session'[u] # session[u]
    /\ UNCHANGED <<verify, evaluation, gen1>>
    /\ UNCHANGED <<products, cart, orders, discount_codes, discount_usage,
                   ledger, calls, settlements, answers>>

\* handle_text_message in state APPLYING_DISCOUNT -> handle_discount_code_input
HandleDiscountCodeInput(u, code) ==
    /\ session[u].state = "APPLYING_DISCOUNT"
    /\ LET r == apply_discount(code, u, get_cart_summary(cart[u]).total_price)
       IN  /\ r.success
           /\ session' = set_user_state(u, "CHECKOUT",
                            [EmptyData EXCEPT !.discount_code = Upper(code),
                                              !.discount_amount = r.discount_amount])
    /\ UNCHANGED <<verify, evaluation, gen1>>
    /\ UNCHANGED <<products, cart, orders, discount_codes, discount_usage,
                   ledger, calls, settlements, answers>>

\* MoonFitBot.remove_discount: the two discount keys are popped from the data
RemoveDiscount(u) ==
    /\ session[u].data.discount_code # None
    /\ session' = set_user_state(u, session[u].state,
                     [session[u].data EXCEPT !.discount_code = None,
                                             !.discount_amount = -1])
    \* show_checkout follows, and validates the cart
    /\ cart' = [cart EXCEPT ![u] = validate_cart(cart[u]).cart]
    /\ UNCHANGED <<verify, evaluation, gen1>>
    /\ UNCHANGED <<products, orders, discount_codes, discount_usage,
                   ledger, calls, settlements, answers>>

----------------------------------------------------------------------------
(* Checkout: process_payment ("pay_ton") *)

\* the order row process_payment inserts for a valid, non-empty cart
NewOrder(u) ==
    LET order_data == prepare_order_data(cart[u])
        discount_code == session[u].data.discount_code
        discount_amount == GetDiscountAmount(session[u].data)
        final_amount == order_data.total_amount - discount_amount
    IN  create_order(u, order_data.products, order_data.total_amount,
                     discount_code, discount_amount, final_amount)

\* payment data that carries the session's discount code along
PaymentDataWithDiscount(order_id, final_amount, u) ==
    [EmptyData EXCEPT !.order_id = order_id, !.amount = final_amount,
                      !.comment = Comment(order_id, u),
                      !.discount_code = session[u].data.discount_code]

\* the payment data process_payment stores in the session
PaymentData(order_id, final_amount, u) ==
    [EmptyData EXCEPT !.order_id = order_id, !.amount = final_amount,
                      !.comment = Comment(order_id, u)]

\* the memo format_payment_message shows to the user
ShownComment(order_id, u) == "ORDER_" \o ToString(order_id) \o "_" \o ToString(u)

\* a checkout that takes the ordered quantities out of the stock
CheckoutStockDecremented(u) ==
    [p \in DOMAIN products |->
       [products[p] EXCEPT !.stock_quantity =
          @ - SumSeq([i \in 1..Len(cart[u]) |->
                        IF cart[u][i].product_id = p THEN cart[u][i].quantity ELSE 0])]]

\* process_payment calls no writer of the products table
CheckoutStock(u) == products

ProcessPayment(u) ==
    /\ Len(orders) < MaxOrders
    /\ prepare_order_data(cart[u]).ok
    /\ LET order == NewOrder(u)
           order_id == Len(orders) + 1
       IN  /\ orders' = Append(orders, order)
           /\ settlements' = Append(settlements, 0)
           /\ session' = set_user_state(u, "WAITING_PAYMENT",
                                        PaymentData(order_id, order.final_amount, u))
    /\ cart' = [cart EXCEPT ![u] = CartAfterPrepare(cart[u])]
    /\ products' = CheckoutStock(u)
    /\ UNCHANGED <<verify, evaluation, gen1>>
    /\ UNCHANGED <<discount_codes, discount_usage, ledger, calls, answers>>

\* process_payment when prepare_order_data returns None: the message is
\* replaced by "Unable to process order", no order is created, but
\* validate_cart may have rewritten the cart
ProcessPaymentRejected(u) ==
    /\ ~prepare_order_data(cart[u]).ok
    /\ cart' = [cart EXCEPT ![u] = CartAfterPrepare(cart[u])]
    /\ answers' = [answers EXCEPT ![u] = "Unable to process order"]
    /\ UNCHANGED <<verify, evaluation, gen1>>
    /\ UNCHANGED <<products, session, orders, discount_codes, discount_usage,
                   ledger, calls, settlements>>

----------------------------------------------------------------------------
(* Confirmation: check_payment_status ("check_payment") *)

\* the coroutines of one user take the lowest free slot
FreeSlot(u, s) ==
    /\ calls[u][s].pc = "idle"
    /\ \A t \in Slots : t < s => calls[u][t].pc # "idle"

\* an entry test that lets every session through
HasPendingPaymentAlways(u) == TRUE

\* the entry test of check_payment_status, negated:
\* state != 'WAITING_PAYMENT' or not state_data.get('order_id')
HasPendingPayment(u) ==
    session[u].state = "WAITING_PAYMENT" /\ session[u].data.order_id # 0

\* entry: no pending payment in the session -> answer and return
CheckNoPending(u, s) ==
    /\ FreeSlot(u, s)
    /\ ~HasPendingPayment(u)
    /\ answers[u] # "No pending payment found"
    /\ answers' = [answers EXCEPT ![u] = "No pending payment found"]
    /\ UNCHANGED <<verify, evaluation, gen1>>
    /\ UNCHANGED <<products, cart, session, orders, discount_codes, discount_usage,
                   ledger, calls, settlements>>

\* entry: the session's Payment Intent is read, verify_payment(timeout=5) starts
CheckStart(u, s) ==
    /\ FreeSlot(u, s)
    /\ HasPendingPayment(u)
    /\ calls' = [calls EXCEPT ![u][s] =
                   [pc |-> "fetch", order_id |-> session[u].data.order_id,
                    amount |-> session[u].data.amount,
                    comment |-> session[u].data.comment,
                    discount_code |-> session[u].data.discount_code,
                    elapsed |-> 0]]
    /\ UNCHANGED <<verify, evaluation, gen1>>
    /\ UNCHANGED <<products, cart, session, orders, discount_codes, discount_usage,
                   ledger, settlements, answers>>

\* a paid branch that does not pass the transaction hash on
SettleOrdersNoHash(c, tx_hash) == update_order_status(c.order_id, "paid", None)

\* the paid branch of check_payment_status: everything between the return of
\* verify_payment and the next await
SettleOrders(c, tx_hash) == update_order_status(c.order_id, "paid", tx_hash)

\* a paid branch that takes only the lines of the session's order out of
\* the cart
SettleCartOrderOnly(u) ==
    LET o == session[u].data.order_id
        Ordered(l) ==
            /\ o \in 1..Len(orders)
            /\ \E j \in 1..Len(orders[o].products) :
                 /\ orders[o].products[j].product_id = l.product_id
                 /\ orders[o].products[j].quantity = l.quantity
    IN  [cart EXCEPT ![u] = SelectSeq(cart[u], LAMBDA l : ~Ordered(l))]

\* a paid branch that leaves the cart alone
SettleCartKept(u) == cart

\* cart_manager.clear_cart(user_id)
SettleCart(u) == [cart EXCEPT ![u] = <<>>]

\* a paid branch that empties the whole user_states table
SettleSessionAll(u) == [v \in AllUsers |-> NoSession]

\* a paid branch that leaves the session alone
SettleSessionKept(u) == session

\* db.clear_user_state(user_id)
SettleSession(u) == clear_user_state(session, u)

\* "if state_data.get('discount_code')" and "if discount" (get_discount_info)
SettleRecordsUsage(c) == c.discount_code # None /\ discount_found(Upper(c.discount_code))

SettleUsage(u, c) ==
    IF SettleRecordsUsage(c)
    THEN UsageAfterUse(discount_codes[Upper(c.discount_code)].id, u, c.order_id)
    ELSE discount_usage

SettleCodes(c) ==
    IF SettleRecordsUsage(c) THEN CodesAfterUse(Upper(c.discount_code)) ELSE discount_codes

\* a fetch of verify_payment returns a listing with a matching transaction
CheckPaymentConfirmed(u, s) ==
    /\ calls[u][s].pc = "fetch"
    /\ \E txs \in FetchResults :
         LET c == calls[u][s]
             r == verify_poll(txs, c.amount, c.comment)
         IN  /\ r.success
             /\ orders' = SettleOrders(c, r.tx_hash)
             /\ cart' = SettleCart(u)
             /\ session' = SettleSession(u)
             /\ discount_usage' = SettleUsage(u, c)
             /\ discount_codes' = SettleCodes(c)
             /\ settlements' = [settlements EXCEPT ![c.order_id] = settlements[c.order_id] + 1]
             /\ calls' = [calls EXCEPT ![u][s] = IdleCall]
             /\ answers' = [answers EXCEPT ![u] = "Payment Confirmed"]
    /\ UNCHANGED <<verify, evaluation, gen1>>
    /\ UNCHANGED <<products, ledger>>

\* a fetch returns no matching transaction (or fails): sleep(check_interval)
CheckPaymentSleep(u, s) ==
    /\ calls[u][s].pc = "fetch"
    /\ \E txs \in FetchResults :
         ~verify_poll(txs, calls[u][s].amount, calls[u][s].comment).success
    /\ calls' = [calls EXCEPT ![u][s].pc = "sleep"]
    /\ UNCHANGED <<verify, evaluation, gen1>>
    /\ UNCHANGED <<products, cart, session, orders, discount_codes, discount_usage,
                   ledger, settlements, answers>>

\* the sleep ends; the while condition is tested against the timeout
CallAfterSleep(c, timeout) ==
    IF LoopContinues(c.elapsed + CheckInterval, timeout)
    THEN [c EXCEPT !.pc = "fetch", !.elapsed = c.elapsed + CheckInterval]
    ELSE IdleCall

\* a not-found branch that drops the session
TimeoutSessionCleared(u) == clear_user_state(session, u)

\* the "Payment not found yet" branch only edits the message: the session
\* keeps the WAITING_PAYMENT data
TimeoutSession(u) == session

CheckPaymentWake(u, s) ==
    /\ calls[u][s].pc = "sleep"
    /\ calls' = [calls EXCEPT ![u][s] = CallAfterSleep(calls[u][s], CheckTimeout)]
    /\ answers' = IF calls'[u][s].pc = "idle"
                  THEN [answers EXCEPT ![u] = "Payment not found yet"] ELSE answers
    /\ session' = IF calls'[u][s].pc = "idle" THEN TimeoutSession(u) ELSE session
    /\ UNCHANGED <<verify, evaluation, gen1>>
    /\ UNCHANGED <<products, cart, orders, discount_codes, discount_usage,
                   ledger, settlements>>

----------------------------------------------------------------------------
(* Cancellation: cancel_current_order ("cancel_order") *)

\* a cancellation that takes every order of the order's user along
CancelOrdersOfUser(o) ==
    IF o \in 1..Len(orders)
    THEN [p \in 1..Len(orders) |->
            IF orders[p].user_id = orders[o].user_id
            THEN [orders[p] EXCEPT !.status = "cancelled"]
            ELSE orders[p]]
    ELSE orders

CancelOrders(o) == update_order_status(o, "cancelled", None)

CancelCurrentOrder(u) ==
    /\ session[u].state = "WAITING_PAYMENT" /\ session[u].data.order_id # 0
    /\ orders' = CancelOrders(session[u].data.order_id)
    /\ session' = clear_user_state(session, u)
    /\ UNCHANGED <<verify, evaluation, gen1>>
    /\ UNCHANGED <<products, cart, discount_codes, discount_usage, ledger, calls,
                   settlements, answers>>

----------------------------------------------------------------------------
(* Environment: the ledger *)

TextTx(value, memo, hash) ==
    [has_in_msg |-> TRUE, destination |-> Wallet, value |-> value,
     msg_type |-> "msg.dataText", text |-> memo, message |-> "", hash |-> hash]

\* a payer sends the final amount of an existing order with the memo of that
\* order and of some user
LedgerReceive(o, u) ==
    /\ Len(ledger) < MaxLedger
    /\ o \in 1..Len(orders)
    /\ orders[o].final_amount >= 0
    /\ ledger' = <<TextTx(orders[o].final_amount, Comment(o, u),
                          "h" \o ToString(Len(ledger) + 1))>> \o ledger
    /\ UNCHANGED <<verify, evaluation, gen1>>
    /\ UNCHANGED <<products, cart, session, orders, discount_codes, discount_usage,
                   calls, settlements, answers>>

----------------------------------------------------------------------------
(* verify_payment on its own: one call, its arguments drawn from small sets,
   against a ledger that receives transactions while it polls *)

ExpectedAmount == 80 * 1000000
MemoA == Comment(42, 7)
MemoB == Comment(42, 8)
OtherAddress == "EQother"

MatchTx(incoming, value, msg_type, text, message, hash) ==
    [has_in_msg |-> TRUE, destination |-> IF incoming THEN Wallet ELSE OtherAddress,
     value |-> value, msg_type |-> msg_type, text |-> text, message |-> message,
     hash |-> hash]

NoMsgTx == [has_in_msg |-> FALSE, destination |-> None, value |-> 0,
            msg_type |-> None, text |-> "", message |-> "", hash |-> "t6"]

MatchTxs ==
    { MatchTx(TRUE, ExpectedAmount, "msg.dataText", MemoA, "", "t1"),
      MatchTx(TRUE, ExpectedAmount, "msg.dataText", MemoB, "", "t2"),
      MatchTx(TRUE, ExpectedAmount + 1, "msg.dataText", MemoA, "", "t3"),
      MatchTx(TRUE, ExpectedAmount + Tolerance, "msg.dataText", MemoA, "", "t4"),
      MatchTx(FALSE, ExpectedAmount, "msg.dataText", MemoA, "", "t5"),
      NoMsgTx,
      MatchTx(TRUE, ExpectedAmount, "msg.dataText", "", "", "t7"),
      MatchTx(TRUE, ExpectedAmount, "msg.dataRaw", "", MemoA, "t8") }

MatchComments == {MemoA, MemoB}
MatchTimeouts == {0, 5, 25}

\* the call has evaluated "while now - start < timeout" for the first time
VerifyCall(expected_amount, comment, timeout) ==
    [pc |-> IF LoopContinues(0, timeout) THEN "fetch" ELSE "done",
     expected_amount |-> expected_amount, comment |-> comment, timeout |-> timeout,
     elapsed |-> 0, success |-> FALSE, tx_hash |-> None, fetches |-> 0,
     failed |-> 0]

InitMatch ==
    /\ products = InitProducts
    /\ cart = [u \in AllUsers |-> <<>>]
    /\ session = [u \in AllUsers |-> NoSession]
    /\ orders = <<>>
    /\ discount_codes = InitDiscountCodes
    /\ discount_usage = <<>>
    /\ ledger = <<>>
    /\ calls = [u \in AllUsers |-> [s \in Slots |-> IdleCall]]
    /\ settlements = <<>>
    /\ answers = [u \in AllUsers |-> None]
    /\ \E comment \in MatchComments, timeout \in MatchTimeouts :
         verify = VerifyCall(ExpectedAmount, comment, timeout)
    /\ evaluation = NoEvaluation
    /\ g1_products = InitG1Products
    /\ g1_carts = <<>>
    /\ g1_orders = <<>>

\* the ledger shows one more transaction
LedgerArrive(tx) ==
    /\ Len(ledger) < MaxMatchLedger
    /\ ledger' = <<tx>> \o ledger
    /\ UNCHANGED <<verify, evaluation, gen1, gen2>>

\* a fetch whose listing holds a matching transaction: return True, tx_hash
VerifyFound(txs) ==
    LET r == verify_poll(txs, verify.expected_amount, verify.comment)
    IN  /\ verify.pc = "fetch"
        /\ r.success
        /\ verify' = [verify EXCEPT !.pc = "done", !.success = TRUE,
                                    !.tx_hash = r.tx_hash,
                                    !.fetches = verify.fetches + 1]
        /\ UNCHANGED <<ledger, evaluation, gen1, gen2>>

\* a fetch with no matching transaction: asyncio.sleep
VerifyMiss(txs) ==
    /\ verify.pc = "fetch"
    /\ ~verify_poll(txs, verify.expected_amount, verify.comment).success
    /\ verify' = [verify EXCEPT !.pc = "sleep", !.fetches = verify.fetches + 1]
    /\ UNCHANGED <<ledger, evaluation, gen1, gen2>>

\* what the toncenter request can come to: a listing (status 200, ok true), or
\* a failure
Responses == {"ok", "non_200", "ok_false", "malformed", "exception", "bad_result"}
FailedResponses == Responses \ {"ok"}

\* get_transaction_history: the listing, [] on every failure it catches itself;
\* a body whose result is not a list is returned as it is
get_transaction_history(response) ==
    IF response = "ok" THEN [raises |-> FALSE, result |-> Window(ledger, FetchLimit)]
    ELSE IF response = "bad_result" THEN [raises |-> TRUE, result |-> <<>>]
    ELSE [raises |-> FALSE, result |-> <<>>]

\* a verify_payment that gives up on a failed fetch
verify_after_failed_fetchAborts(response) ==
    [verify EXCEPT !.pc = "done", !.fetches = verify.fetches + 1,
                   !.failed = verify.failed + 1]

\* verify_payment after a failed fetch: the for loop runs over [] or raises
\* into the except branch, and both paths reach asyncio.sleep
verify_after_failed_fetch(response) ==
    LET h == get_transaction_history(response)
        r == verify_poll(h.result, verify.expected_amount, verify.comment)
    IN  IF ~h.raises /\ r.success
        THEN [verify EXCEPT !.pc = "done", !.success = TRUE, !.tx_hash = r.tx_hash,
                            !.fetches = verify.fetches + 1,
                            !.failed = verify.failed + 1]
        ELSE [verify EXCEPT !.pc = "sleep", !.fetches = verify.fetches + 1,
                            !.failed = verify.failed + 1]

\* a fetch that fails
VerifyFetchFailed(response) ==
    /\ verify.pc = "fetch"
    /\ verify' = verify_after_failed_fetch(response)
    /\ UNCHANGED <<ledger, evaluation, gen1, gen2>>

\* the sleep is over: the while condition decides between the next fetch and
\* the timeout return (False, None)
VerifyWake ==
    /\ verify.pc = "sleep"
    /\ verify' = [verify EXCEPT
                    !.elapsed = verify.elapsed + CheckInterval,
                    !.pc = IF LoopContinues(verify.elapsed + CheckInterval, verify.timeout)
                           THEN "fetch" ELSE "done"]
    /\ UNCHANGED <<ledger, evaluation, gen1, gen2>>

NextMatch ==
    \/ \E tx \in MatchTxs : LedgerArrive(tx)
    \/ VerifyFound(get_transaction_history("ok").result)
    \/ VerifyMiss(get_transaction_history("ok").result)
    \/ \E response \in FailedResponses : VerifyFetchFailed(response)
    \/ VerifyWake

SpecMatch == InitMatch /\ [][NextMatch]_vars

\* the steps of the verify_payment coroutine
VerifyStep ==
    \/ VerifyFound(get_transaction_history("ok").result)
    \/ VerifyMiss(get_transaction_history("ok").result)
    \/ \E response \in FailedResponses : VerifyFetchFailed(response)
    \/ VerifyWake

\* the event loop resumes the coroutine after every await: the request
\* returns or raises, the sleep ends
SpecMatchLive == SpecMatch /\ WF_vars(VerifyStep)

----------------------------------------------------------------------------
(* First-generation bot (main.py, cart_manager.py, database.py): the carts
   table has no uniqueness on user_id, so every update_cart adds a row, and
   get_cart reads the user's first row *)

\* Database.get_product: the row, or None once the product is deleted
g1_get_product(p) ==
    IF p \in DOMAIN g1_products
    THEN [found |-> TRUE, price |-> g1_products[p].price,
          stock_quantity |-> g1_products[p].stock_quantity]
    ELSE [found |-> FALSE, price |-> 0, stock_quantity |-> 0]

\* the rows of the carts table that belong to the user, oldest first
g1_cart_rows(rows, u) == SelectSeq(rows, LAMBDA r : r.user_id = u)

\* Database.get_cart: cursor.fetchone() of the user's rows
g1_get_cart(u) ==
    LET mine == g1_cart_rows(g1_carts, u)
    IN  IF Len(mine) = 0 THEN <<>> ELSE mine[1].cart_data

\* Database.update_cart: INSERT OR REPLACE with a fresh autoincrement id
g1_update_cart(rows, u, cart_data) ==
    Append(rows, [user_id |-> u, cart_data |-> cart_data])

\* Database.clear_cart
g1_clear_cart(rows, u) == g1_update_cart(rows, u, <<>>)

\* CartManager.add_to_cart(user, product, 1): the cart to store, or fail
g1_add_to_cart(u, p) ==
    LET product == g1_get_product(p)
        c == g1_get_cart(u)
        i == IndexOf(c, p)
    IN  IF ~product.found \/ product.stock_quantity < 1 \/ Len(c) >= MAX_CART_ITEMS
        THEN [ok |-> FALSE, cart |-> c]
        ELSE IF i # 0
        THEN IF c[i].quantity + 1 > product.stock_quantity
             THEN [ok |-> FALSE, cart |-> c]
             ELSE [ok |-> TRUE, cart |-> [c EXCEPT ![i].quantity = c[i].quantity + 1]]
        ELSE [ok |-> TRUE, cart |-> Append(c, [product_id |-> p, quantity |-> 1])]

\* CartManager.get_cart_items: lines of the products that still exist
g1_get_cart_items(u) ==
    LET c == g1_get_cart(u)
        Line(it) ==
            LET product == g1_get_product(it.product_id)
            IN  [product_id |-> it.product_id, price |-> product.price,
                 quantity |-> it.quantity,
                 total_price |-> product.price * it.quantity,
                 in_stock |-> Min(it.quantity, product.stock_quantity) = it.quantity]
        present == SelectSeq(c, LAMBDA it : g1_get_product(it.product_id).found)
    IN  [k \in 1..Len(present) |-> Line(present[k])]

\* a cart total over every line, in stock or not
g1_get_cart_totalAllLines(u) ==
    LET items == g1_get_cart_items(u)
    IN  SumSeq([k \in 1..Len(items) |-> items[k].total_price])

\* CartManager.get_cart_total: the in-stock lines only
g1_get_cart_total(u) ==
    LET items == g1_get_cart_items(u)
    IN  SumSeq([k \in 1..Len(items) |->
                  IF items[k].in_stock THEN items[k].total_price ELSE 0])

\* MoonFitBot.add_to_cart
G1AddToCart(u, p) ==
    /\ Len(g1_carts) < MaxCartRows
    /\ g1_add_to_cart(u, p).ok
    /\ g1_carts' = g1_update_cart(g1_carts, u, g1_add_to_cart(u, p).cart)
    /\ UNCHANGED <<g1_products, g1_orders, verify, evaluation, ledger, gen2>>

\* MoonFitBot.remove_from_cart: quantity None removes the line
G1RemoveFromCart(u, p) ==
    LET c == g1_get_cart(u)
        i == IndexOf(c, p)
    IN  /\ Len(g1_carts) < MaxCartRows
        /\ i # 0
        /\ g1_carts' = g1_update_cart(g1_carts, u, RemoveAt(c, i))
        /\ UNCHANGED <<g1_products, g1_orders, verify, evaluation, ledger, gen2>>

\* MoonFitBot.clear_cart
G1ClearCart(u) ==
    /\ Len(g1_carts) < MaxCartRows
    /\ g1_carts' = g1_clear_cart(g1_carts, u)
    /\ UNCHANGED <<g1_products, g1_orders, verify, evaluation, ledger, gen2>>

\* the carts table after start_checkout has created the order
CartsAfterCheckout(rows, u) == g1_clear_cart(rows, u)

\* MoonFitBot.start_checkout, the path that creates the order
G1StartCheckout(u) ==
    LET cart_items == g1_get_cart_items(u)
        total_amount == g1_get_cart_total(u)
    IN  /\ Len(g1_carts) < MaxCartRows
        /\ Len(g1_orders) < MaxG1Orders
        /\ Len(cart_items) > 0
        /\ g1_orders' = Append(g1_orders,
               [user_id |-> u, order_data |-> cart_items,
                total_amount |-> total_amount, discount_code |-> None,
                discount_amount |-> 0, status |-> "pending"])
        /\ g1_carts' = CartsAfterCheckout(g1_carts, u)
        /\ UNCHANGED <<g1_products, verify, evaluation, ledger, gen2>>

\* admin: MoonFitBot.delete_product -> ProductManager.delete_product
G1DeleteProduct(p) ==
    /\ p \in DOMAIN g1_products
    /\ g1_products' = [q \in DOMAIN g1_products \ {p} |-> g1_products[q]]
    /\ UNCHANGED <<g1_carts, g1_orders, verify, evaluation, ledger, gen2>>

NextGen1 ==
    \/ \E u \in AllUsers, p \in Products : G1AddToCart(u, p)
    \/ \E u \in AllUsers, p \in Products : G1RemoveFromCart(u, p)
    \/ \E u \in AllUsers : G1ClearCart(u)
    \/ \E u \in AllUsers : G1StartCheckout(u)
    \/ \E p \in Products : G1DeleteProduct(p)

SpecGen1 == Init /\ [][NextGen1]_vars

----------------------------------------------------------------------------
(* Environment: the admin and the clock *)

\* db.toggle_discount_code: active = NOT active
AdminToggleDiscount(code) ==
    /\ discount_codes' = [discount_codes EXCEPT ![code].active = ~discount_codes[code].active]
    /\ UNCHANGED <<verify, evaluation, gen1>>
    /\ UNCHANGED <<products, cart, session, orders, discount_usage, ledger, calls,
                   settlements, answers>>

\* time passes the expiry_date of a code: datetime.now() > expiry from now on
ClockExpire(code) ==
    /\ code \in CodesWithExpiry
    /\ ~discount_codes[code].expired
    /\ discount_codes' = [discount_codes EXCEPT ![code].expired = TRUE]
    /\ UNCHANGED <<verify, evaluation, gen1>>
    /\ UNCHANGED <<products, cart, session, orders, discount_usage, ledger, calls,
                   settlements, answers>>

----------------------------------------------------------------------------
(* The settlement protocol of one shopper, two concurrent confirmations *)

Next ==
    \/ \E u \in Shoppers, p \in ShopProducts : AddToCart(u, p)
    \/ \E u \in Shoppers, p \in ShopProducts : RemoveFromCart(u, p)
    \/ \E u \in Shoppers : ShowMainMenu(u)
    \/ \E u \in Shoppers : ProcessPayment(u)
    \/ \E u \in Shoppers, s \in Slots : CheckNoPending(u, s)
    \/ \E u \in Shoppers, s \in Slots : CheckStart(u, s)
    \/ \E u \in Shoppers, s \in Slots : CheckPaymentConfirmed(u, s)
    \/ \E u \in Shoppers, s \in Slots : CheckPaymentSleep(u, s)
    \/ \E u \in Shoppers, s \in Slots : CheckPaymentWake(u, s)
    \/ \E u \in Shoppers : CancelCurrentOrder(u)
    \/ \E o \in 1..MaxOrders, u \in AllUsers : LedgerReceive(o, u)

Spec == Init /\ [][Next]_vars

----------------------------------------------------------------------------
(* Checkout with discount codes: one shopper building carts, applying codes
   and creating orders while the admin and the clock act on the codes *)

\* process_payment, for as many orders as this specification follows
CheckoutPayment(u) == Len(orders) < MaxCheckoutOrders /\ ProcessPayment(u)

NextCheckout ==
    \/ \E u \in Shoppers, p \in Products : AddToCart(u, p)
    \/ \E u \in Shoppers, p \in Products : RemoveFromCart(u, p)
    \/ \E u \in Shoppers : ShowMainMenu(u)
    \/ \E u \in Shoppers : ApplyDiscountStart(u)
    \/ \E u \in Shoppers, code \in CodeInputs : HandleDiscountCodeInput(u, code)
    \/ \E u \in Shoppers : RemoveDiscount(u)
    \/ \E u \in Shoppers : CheckoutPayment(u)
    \/ \E code \in Codes : AdminToggleDiscount(code)
    \/ \E code \in Codes : ClockExpire(code)

SpecCheckout == Init /\ [][NextCheckout]_vars

----------------------------------------------------------------------------
(* Settlement of discounted orders: one shopper, one confirmation at a time *)

NextDiscountSettle ==
    \/ \E u \in Shoppers, p \in ShopProducts : AddToCart(u, p)
    \/ \E u \in Shoppers : ApplyDiscountStart(u)
    \/ \E u \in Shoppers, code \in ShopCodeInputs : HandleDiscountCodeInput(u, code)
    \/ \E u \in Shoppers : ProcessPayment(u)
    \/ \E u \in Shoppers : CheckStart(u, 1)
    \/ \E u \in Shoppers : CheckPaymentConfirmed(u, 1)
    \/ \E u \in Shoppers : CheckPaymentSleep(u, 1)
    \/ \E u \in Shoppers : CheckPaymentWake(u, 1)
    \/ \E o \in 1..MaxOrders, u \in Shoppers : LedgerReceive(o, u)

SpecDiscountSettle == Init /\ [][NextDiscountSettle]_vars

----------------------------------------------------------------------------
(* Checkout pressed on full and on empty carts, in both generations of the
   bot *)

NextEmptyCart ==
    \/ \E u \in AllUsers, p \in ShopProducts : AddToCart(u, p)
    \/ \E u \in AllUsers, p \in ShopProducts : RemoveFromCart(u, p)
    \/ \E u \in AllUsers : ProcessPayment(u)
    \/ \E u \in AllUsers : ProcessPaymentRejected(u)
    \/ \E u \in AllUsers : CancelCurrentOrder(u)
    \/ \E u \in Shoppers, p \in ShopProducts : G1AddToCart(u, p)
    \/ \E u \in Shoppers, p \in ShopProducts : G1RemoveFromCart(u, p)
    \/ \E u \in Shoppers : G1StartCheckout(u)

SpecEmptyCart == Init /\ [][NextEmptyCart]_vars

----------------------------------------------------------------------------
(* The discount evaluator on its own: apply_discount over the contents the
   discount_codes and discount_usage tables can have *)

Subtotals == {0, 1000000, 5000000}
PercentValues == {1, 50, 100}
UsageLimits == {-1, 0, 1, 2}
UsedCounts == {0, 1, 2}

UsageRow(code_id, u, o) == [code_id |-> code_id, user_id |-> u, order_id |-> o]

UsageTables ==
    { <<>>, <<UsageRow(1, 7, 1)>>, <<UsageRow(1, 8, 1)>>, <<UsageRow(2, 7, 1)>>,
      <<UsageRow(1, 7, 1), UsageRow(2, 7, 2)>> }

\* the rows a limited code can have: a counter within its limit
FixedRows ==
    { [id |-> 1, discount_type |-> "fixed", discount_value |-> 1500000,
       usage_limit |-> l, used_count |-> n, expired |-> e, active |-> a] :
         l \in UsageLimits, n \in UsedCounts, e \in BOOLEAN, a \in BOOLEAN }

PercentRows ==
    { [id |-> 2, discount_type |-> "percentage", discount_value |-> v,
       usage_limit |-> -1, used_count |-> 0, expired |-> e, active |-> TRUE] :
         v \in PercentValues, e \in BOOLEAN }

InitEvaluate ==
    /\ products = InitProducts
    /\ cart = [u \in AllUsers |-> <<>>]
    /\ session = [u \in AllUsers |-> NoSession]
    /\ orders = <<>>
    /\ \E f \in FixedRows, g \in PercentRows :
         /\ f.usage_limit \in {-1, 0} \/ f.used_count <= f.usage_limit
         /\ f.usage_limit = 0 => f.used_count = 0
         /\ discount_codes = ("SAVE20" :> f) @@ ("HALF" :> g)
    /\ discount_usage \in UsageTables
    /\ ledger = <<>>
    /\ calls = [u \in AllUsers |-> [s \in Slots |-> IdleCall]]
    /\ settlements = <<>>
    /\ answers = [u \in AllUsers |-> None]
    /\ verify = IdleVerify
    /\ evaluation = NoEvaluation
    /\ g1_products = InitG1Products
    /\ g1_carts = <<>>
    /\ g1_orders = <<>>

\* an evaluation that consumes the code
EvaluateCodesCounted(code) ==
    IF Upper(code) \in DOMAIN discount_codes
    THEN CodesAfterUse(Upper(code)) ELSE discount_codes

\* validate_discount_code and apply_discount only read the tables
EvaluateCodes(code) == discount_codes

\* DiscountManager.apply_discount(code, user_id, total_amount)
Evaluate(code, u, total_amount) ==
    LET r == apply_discount(code, u, total_amount)
    IN  /\ evaluation' = [code |-> code, user_id |-> u, total_amount |-> total_amount,
                          success |-> r.success, message |-> r.message,
                          discount_amount |-> r.discount_amount]
        /\ discount_codes' = EvaluateCodes(code)
        /\ UNCHANGED <<products, cart, session, orders, discount_usage, ledger,
                       calls, settlements, answers, verify, gen1>>

NextEvaluate ==
    \E code \in CodeInputs, u \in AllUsers, total_amount \in Subtotals :
        Evaluate(code, u, total_amount)

SpecEvaluate == InitEvaluate /\ [][NextEvaluate]_vars

----------------------------------------------------------------------------
(* Shoppers who apply the same limited code, check out and have their
   payments confirmed *)

SharedCodeInputs == {"save20"}

\* the payer of order o transfers its final amount with the memo shown to them
LedgerPay(o) ==
    /\ Len(ledger) < MaxPaidLedger
    /\ o \in 1..Len(orders)
    /\ orders[o].final_amount >= 0
    /\ \A k \in 1..Len(ledger) :
         get_transaction_comment(ledger[k]) # Comment(o, orders[o].user_id)
    /\ ledger' = <<TextTx(orders[o].final_amount, Comment(o, orders[o].user_id),
                          "h" \o ToString(Len(ledger) + 1))>> \o ledger
    /\ UNCHANGED <<verify, evaluation, gen1>>
    /\ UNCHANGED <<products, cart, session, orders, discount_codes, discount_usage,
                   calls, settlements, answers>>

\* two shoppers, one confirmation of each at a time
NextSharedCode ==
    \/ \E u \in AllUsers, p \in ShopProducts : AddToCart(u, p)
    \/ \E u \in AllUsers : ApplyDiscountStart(u)
    \/ \E u \in AllUsers, code \in SharedCodeInputs : HandleDiscountCodeInput(u, code)
    \/ \E u \in AllUsers : ProcessPayment(u)
    \/ \E u \in AllUsers : CheckStart(u, 1)
    \/ \E u \in AllUsers : CheckPaymentConfirmed(u, 1)
    \/ \E u \in AllUsers : CheckPaymentSleep(u, 1)
    \/ \E u \in AllUsers : CheckPaymentWake(u, 1)
    \/ \E o \in 1..MaxOrders : LedgerPay(o)

SpecSharedCode == Init /\ [][NextSharedCode]_vars

\* one shopper who reuses the code, two confirmations in flight
NextRepeatCode ==
    \/ \E u \in Shoppers, p \in ShopProducts : AddToCart(u, p)
    \/ \E u \in Shoppers : ApplyDiscountStart(u)
    \/ \E u \in Shoppers, code \in SharedCodeInputs : HandleDiscountCodeInput(u, code)
    \/ \E u \in Shoppers : ProcessPayment(u)
    \/ \E u \in Shoppers, s \in Slots : CheckStart(u, s)
    \/ \E u \in Shoppers, s \in Slots : CheckPaymentConfirmed(u, s)
    \/ \E u \in Shoppers, s \in Slots : CheckPaymentSleep(u, s)
    \/ \E u \in Shoppers, s \in Slots : CheckPaymentWake(u, s)
    \/ \E o \in 1..MaxOrders : LedgerPay(o)

SpecRepeatCode == Init /\ [][NextRepeatCode]_vars

----------------------------------------------------------------------------
(* Two users checking out, confirming and cancelling side by side *)

\* the checkout handlers of user u: "pay_ton", "check_payment", "cancel_order"
CheckoutStep(u) ==
    \/ ProcessPayment(u)
    \/ CheckStart(u, 1)
    \/ CheckPaymentConfirmed(u, 1)
    \/ CheckPaymentSleep(u, 1)
    \/ CheckPaymentWake(u, 1)
    \/ CancelCurrentOrder(u)

NextTwoUsers ==
    \/ \E u \in AllUsers, p \in ShopProducts : AddToCart(u, p)
    \/ \E u \in AllUsers : ProcessPayment(u)
    \/ \E u \in AllUsers : CheckStart(u, 1)
    \/ \E u \in AllUsers : CheckPaymentConfirmed(u, 1)
    \/ \E u \in AllUsers : CheckPaymentSleep(u, 1)
    \/ \E u \in AllUsers : CheckPaymentWake(u, 1)
    \/ \E u \in AllUsers : CancelCurrentOrder(u)
    \/ \E o \in 1..MaxOrders : LedgerPay(o)

SpecTwoUsers == Init /\ [][NextTwoUsers]_vars

----------------------------------------------------------------------------
(* Checkout against a catalog that changes: the product manager updates
   prices and stock and discontinues products while a shopper fills the cart,
   checks out, confirms and cancels *)

MaxStock == 2
CatalogPrices == {2000000, 2000500}
StockChanges == {-1, 1}

\* ProductManager.update_product(product_id, price=price)
UpdateProductPrice(p, price) ==
    /\ get_product(p).found
    /\ price > 0
    /\ price # products[p].price
    /\ products' = [products EXCEPT ![p].price = price]
    /\ UNCHANGED <<verify, evaluation, gen1>>
    /\ UNCHANGED <<cart, session, orders, discount_codes, discount_usage,
                   ledger, calls, settlements, answers>>

\* ProductManager.update_stock(product_id, quantity_change)
UpdateStock(p, quantity_change) ==
    /\ get_product(p).found
    /\ products[p].stock_quantity + quantity_change >= 0
    /\ products[p].stock_quantity + quantity_change <= MaxStock
    /\ products' = [products EXCEPT ![p].stock_quantity = @ + quantity_change]
    /\ UNCHANGED <<verify, evaluation, gen1>>
    /\ UNCHANGED <<cart, session, orders, discount_codes, discount_usage,
                   ledger, calls, settlements, answers>>

\* ProductManager.delete_product: active = FALSE
DeleteProduct(p) ==
    /\ get_product(p).found
    /\ products' = [products EXCEPT ![p].active = FALSE]
    /\ UNCHANGED <<verify, evaluation, gen1>>
    /\ UNCHANGED <<cart, session, orders, discount_codes, discount_usage,
                   ledger, calls, settlements, answers>>

NextCatalog ==
    \/ \E u \in Shoppers, p \in ShopProducts : AddToCart(u, p)
    \/ \E u \in Shoppers : ProcessPayment(u)
    \/ \E u \in Shoppers : ProcessPaymentRejected(u)
    \/ \E u \in Shoppers : CheckStart(u, 1)
    \/ \E u \in Shoppers : CheckPaymentConfirmed(u, 1)
    \/ \E u \in Shoppers : CheckPaymentSleep(u, 1)
    \/ \E u \in Shoppers : CheckPaymentWake(u, 1)
    \/ \E u \in Shoppers : CancelCurrentOrder(u)
    \/ \E o \in 1..MaxOrders : LedgerPay(o)
    \/ \E p \in ShopProducts, price \in CatalogPrices : UpdateProductPrice(p, price)
    \/ \E p \in ShopProducts, c \in StockChanges : UpdateStock(p, c)
    \/ \E p \in ShopProducts : DeleteProduct(p)

SpecCatalog == Init /\ [][NextCatalog]_vars

----------------------------------------------------------------------------
(* Settlement interrupted: the process stops inside the paid branch of
   check_payment_status and is started again *)

\* the statements of the paid branch after which the process can stop:
\* update_order_status, clear_cart, clear_user_state
CrashPoints == {1, 2, 3}

\* the paid branch runs its first k statements, each committed to the
\* database on its own, then the process stops: every coroutine is gone
CheckPaymentCrashed(u, s, k) ==
    /\ calls[u][s].pc = "fetch"
    /\ \E txs \in FetchResults :
         LET c == calls[u][s]
             r == verify_poll(txs, c.amount, c.comment)
         IN  /\ r.success
             /\ orders' = SettleOrders(c, r.tx_hash)
             /\ cart' = IF k >= 2 THEN SettleCart(u) ELSE cart
             /\ session' = IF k >= 3 THEN SettleSession(u) ELSE session
    /\ calls' = [v \in AllUsers |-> [t \in Slots |-> IdleCall]]
    /\ UNCHANGED <<verify, evaluation, gen1>>
    /\ UNCHANGED <<products, discount_codes, discount_usage, ledger, settlements,
                   answers>>

\* the steps of one check_payment_status call that do not depend on the ledger
CheckStep(u) ==
    \/ CheckStart(u, 1)
    \/ CheckPaymentSleep(u, 1)
    \/ CheckPaymentWake(u, 1)

NextCrash ==
    \/ \E u \in Shoppers, p \in ShopProducts : AddToCart(u, p)
    \/ \E u \in Shoppers : ApplyDiscountStart(u)
    \/ \E u \in Shoppers, code \in ShopCodeInputs : HandleDiscountCodeInput(u, code)
    \/ \E u \in Shoppers : ProcessPayment(u)
    \/ \E u \in Shoppers : CheckStart(u, 1)
    \/ \E u \in Shoppers : CheckPaymentConfirmed(u, 1)
    \/ \E u \in Shoppers : CheckPaymentSleep(u, 1)
    \/ \E u \in Shoppers : CheckPaymentWake(u, 1)
    \/ \E u \in Shoppers, k \in CrashPoints : CheckPaymentCrashed(u, 1, k)
    \/ \E o \in 1..MaxOrders : LedgerPay(o)

\* the user keeps asking for confirmation while the session allows it, and a
\* fetch that can find the payment eventually does
SpecCrash ==
    /\ Init /\ [][NextCrash]_vars
    /\ \A u \in Shoppers : WF_vars(CheckStep(u)) /\ SF_vars(CheckPaymentConfirmed(u, 1))

----------------------------------------------------------------------------
(* First generation with a stock that moves: carts hold quantities that the
   stock covered when they were added and may not cover at checkout *)

\* ProductManager.update_stock(product_id, quantity_change)
G1UpdateStock(p, quantity_change) ==
    /\ g1_get_product(p).found
    /\ g1_products[p].stock_quantity + quantity_change >= 0
    /\ g1_products[p].stock_quantity + quantity_change <= MaxStock
    /\ g1_products' = [g1_products EXCEPT ![p].stock_quantity = @ + quantity_change]
    /\ UNCHANGED <<g1_carts, g1_orders, verify, evaluation, ledger, gen2>>

NextGen1Stock ==
    \/ \E u \in Shoppers, p \in Products : G1AddToCart(u, p)
    \/ \E u \in Shoppers, p \in Products : G1RemoveFromCart(u, p)
    \/ \E u \in Shoppers : G1ClearCart(u)
    \/ \E u \in Shoppers : G1StartCheckout(u)
    \/ \E p \in Products : G1DeleteProduct(p)
    \/ \E p \in Products, quantity_change \in StockChanges : G1UpdateStock(p, quantity_change)

SpecGen1Stock == Init /\ [][NextGen1Stock]_vars

----------------------------------------------------------------------------
(* Properties *)

\* C1: verify_payment never reports success for a transaction whose memo
\* differs from the expected memo, even when its amount matches exactly: the
\* hash it returns belongs to a listed transaction, and every listed
\* transaction with that hash carries the expected memo.
C1_MemoRequired ==
    (verify.pc = "done" /\ verify.success) =>
        /\ \E k \in 1..Len(ledger) : ledger[k].hash = verify.tx_hash
        /\ \A k \in 1..Len(ledger) :
             ledger[k].hash = verify.tx_hash =>
                get_transaction_comment(ledger[k]) = verify.comment

\* success with a newer incoming transaction of the same amount and another
\* memo listed ahead of the accepted one
C1_Witness ==
    /\ verify.pc = "done" /\ verify.success
    /\ Len(ledger) = 2
    /\ verify.tx_hash = ledger[2].hash
    /\ is_incoming_transaction(ledger[1])
    /\ get_transaction_amount(ledger[1]) = verify.expected_amount
    /\ get_transaction_comment(ledger[1]) \notin {"", verify.comment}

\* C2: with two check_payment_status calls for the same pending order running
\* concurrently, the order is settled at most once: the paid branch (order
\* update, cart clear, usage record, confirmation message) runs at most once
\* per order.
C2_SettledOnce == \A o \in 1..Len(settlements) : settlements[o] <= 1

\* C3: once cancel_current_order has set an order to cancelled, no later step
\* makes that order paid.
C3_CancelledStays ==
    [][\A o \in 1..Len(orders) :
         orders[o].status = "cancelled" => orders'[o].status # "paid"]_vars

\* C4: a paid order that was created with a discount code has exactly one
\* usage record for (code, user, order), and the code's used_count has grown
\* by one for each such paid order.
C4_UsageRecorded ==
    \A o \in 1..Len(orders) :
      (orders[o].status = "paid" /\ orders[o].discount_code # None) =>
        LET code == orders[o].discount_code
        IN  /\ Cardinality({k \in 1..Len(discount_usage) :
                   /\ discount_usage[k].order_id = o
                   /\ discount_usage[k].user_id = orders[o].user_id
                   /\ discount_usage[k].code_id = discount_codes[code].id}) = 1
            /\ discount_codes[code].used_count =
                 InitDiscountCodes[code].used_count +
                 Cardinality({p \in 1..Len(orders) :
                                orders[p].status = "paid" /\ orders[p].discount_code = code})

\* C5: when check_payment_status finds a matching ledger transaction for a
\* pending order, the order becomes paid, its payment_hash is the hash of a
\* ledger transaction that matches the order's amount and memo, and the
\* user's cart is empty afterwards.
C5_SettleEffects ==
    [][\A o \in 1..Len(orders) :
         (settlements'[o] > settlements[o] /\ orders[o].status = "pending") =>
            /\ orders'[o].status = "paid"
            /\ \E k \in 1..Len(ledger) :
                 /\ TxMatches(ledger[k], orders[o].final_amount,
                              Comment(o, orders[o].user_id))
                 /\ orders'[o].payment_hash = ledger[k].hash
            /\ cart'[orders[o].user_id] = <<>>]_vars

\* an order settled once from pending: paid, with the hash of the listed
\* transaction, its owner's cart empty and the confirmation sent
C5_Witness ==
    \E o \in 1..Len(orders) :
        /\ settlements[o] = 1
        /\ orders[o].status = "paid"
        /\ Len(ledger) = 1 /\ orders[o].payment_hash = ledger[1].hash
        /\ cart[orders[o].user_id] = <<>>
        /\ answers[orders[o].user_id] = "Payment Confirmed"

\* C6: once an order is paid and no call of its user is still running, a
\* further check_payment_status is a no-op for that order: it starts no poll
\* for it, the order row and its settlement count stay as they are and no
\* usage row for it is added.
C6_SecondCheckNoOp ==
    [][\A u \in AllUsers, o \in 1..Len(orders) :
         (/\ orders[o].user_id = u
          /\ orders[o].status = "paid"
          /\ \A s \in Slots : calls[u][s].pc = "idle") =>
            /\ \A s \in Slots : calls'[u][s].order_id # o
            /\ orders'[o] = orders[o]
            /\ settlements'[o] = settlements[o]
            /\ \A k \in 1..Len(discount_usage') :
                 discount_usage'[k].order_id = o => k <= Len(discount_usage)]_vars

\* the only order is paid after one settlement and the user's next check was
\* answered "No pending payment found"
C6_Witness ==
    /\ Len(orders) = 1
    /\ orders[1].status = "paid"
    /\ settlements[1] = 1
    /\ \A s \in Slots : calls[orders[1].user_id][s].pc = "idle"
    /\ answers[orders[1].user_id] = "No pending payment found"

\* C7: the step in which verify_payment times out inside
\* check_payment_status changes no order, cart, usage record, used_count or
\* session: the order stays pending with its Payment Intent, so the check can
\* be repeated or the order cancelled.
C7_TimeoutFrame ==
    [][\A u \in AllUsers, s \in Slots :
         (calls[u][s].pc = "sleep" /\ calls'[u][s].pc = "idle") =>
            /\ orders' = orders
            /\ cart' = cart
            /\ discount_usage' = discount_usage
            /\ discount_codes' = discount_codes
            /\ session' = session]_vars

\* after a timeout: the answer was "Payment not found yet", the session still
\* waits for the payment of a pending order and the cart still has its items
C7_Witness ==
    \E u \in AllUsers :
        /\ answers[u] = "Payment not found yet"
        /\ \A s \in Slots : calls[u][s].pc = "idle"
        /\ session[u].state = "WAITING_PAYMENT"
        /\ session[u].data.order_id \in 1..Len(orders)
        /\ orders[session[u].data.order_id].status = "pending"
        /\ cart[u] # <<>>

C9_OrderAmounts ==
    \A o \in 1..Len(orders) :
        /\ orders[o].final_amount = orders[o].total_amount - orders[o].discount_amount
        /\ 0 <= orders[o].discount_amount
        /\ orders[o].discount_amount <= orders[o].total_amount

\* C10: no step creates an order carrying a discount code that
\* validate_discount_code rejects for that user at that moment.
C10_Revalidated ==
    [][\A u \in AllUsers :
         (/\ Len(orders') = Len(orders) + 1
          /\ orders'[Len(orders')].user_id = u
          /\ orders'[Len(orders')].discount_code # None) =>
            validate_discount_code(orders'[Len(orders')].discount_code, u)
               = "Valid discount code"]_vars

\* C11: the evaluator reports a distinct, specific outcome for each failing
\* check, in the order unknown, inactive, expired, limit-reached, already
\* used: in particular an evaluation that fails because the code is inactive
\* reports an outcome different from the one an unknown code gets.
C11_InactiveDistinct ==
    \A c \in CodeInputs :
        (/\ evaluation.code # None
         /\ Upper(evaluation.code) \in DOMAIN discount_codes
         /\ ~discount_codes[Upper(evaluation.code)].active
         /\ Upper(c) \notin DOMAIN discount_codes) =>
            evaluation.message #
               apply_discount(c, evaluation.user_id, evaluation.total_amount).message

\* C12: once a usage record exists for (code, user), every evaluation of that
\* code for that user is rejected, whatever usage headroom the code has left.
C12_UsedRejected ==
    (/\ evaluation.code # None
     /\ Upper(evaluation.code) \in DOMAIN discount_codes
     /\ UsageCount(discount_codes[Upper(evaluation.code)].id, evaluation.user_id) > 0) =>
        ~evaluation.success

\* user 7 holds a usage record of SAVE20, the code is active, unexpired and
\* has headroom, and the evaluation for user 7 was rejected as already used
C12_Witness ==
    /\ evaluation.code = "save20" /\ evaluation.user_id = 7
    /\ UsageCount(discount_codes["SAVE20"].id, 7) > 0
    /\ discount_codes["SAVE20"].active /\ ~discount_codes["SAVE20"].expired
    /\ discount_codes["SAVE20"].usage_limit = 2
    /\ discount_codes["SAVE20"].used_count = 1
    /\ ~evaluation.success
    /\ evaluation.message = "You have already used this discount code"

\* C13: a code whose usage limit is set (any non-null value) and whose
\* used_count >= usage_limit is rejected as limit-reached for every user,
\* when no earlier check (unknown, inactive, expired) fails.
C13_LimitReached ==
    (/\ evaluation.code # None
     /\ Upper(evaluation.code) \in DOMAIN discount_codes
     /\ discount_codes[Upper(evaluation.code)].active
     /\ ~discount_codes[Upper(evaluation.code)].expired
     /\ discount_codes[Upper(evaluation.code)].usage_limit # -1
     /\ discount_codes[Upper(evaluation.code)].used_count
          >= discount_codes[Upper(evaluation.code)].usage_limit) =>
        /\ ~evaluation.success
        /\ evaluation.message = "Discount code usage limit reached"

C16_Percentage ==
    (/\ evaluation.code # None
     /\ evaluation.success
     /\ discount_codes[Upper(evaluation.code)].discount_type = "percentage") =>
        LET v == discount_codes[Upper(evaluation.code)].discount_value
            t == evaluation.total_amount
        IN  /\ 100 * evaluation.discount_amount = Min(t * v, t * 100)
            /\ t - evaluation.discount_amount >= 0

\* HALF at 50 percent applied to a subtotal of 5 TON gave 2.5 TON
C16_Witness ==
    /\ evaluation.code = "HALF" /\ evaluation.success
    /\ discount_codes["HALF"].discount_type = "percentage"
    /\ discount_codes["HALF"].discount_value = 50
    /\ evaluation.total_amount = 5000000
    /\ evaluation.discount_amount = 2500000

\* C17: for a fixed discount and any subtotal, the discount amount is
\* min(value, subtotal): the value when it fits, else the whole subtotal.
C17_Fixed ==
    (/\ evaluation.code # None
     /\ evaluation.success
     /\ discount_codes[Upper(evaluation.code)].discount_type = "fixed") =>
        LET v == discount_codes[Upper(evaluation.code)].discount_value
            t == evaluation.total_amount
        IN  /\ v <= t => evaluation.discount_amount = v
            /\ v > t => evaluation.discount_amount = t

\* SAVE20 (1.5 TON off) applied to a subtotal of 1 TON gave 1 TON
C17_Witness ==
    /\ evaluation.code = "SAVE20" /\ evaluation.success
    /\ discount_codes["SAVE20"].discount_type = "fixed"
    /\ discount_codes["SAVE20"].discount_value > evaluation.total_amount
    /\ evaluation.total_amount = 1000000
    /\ evaluation.discount_amount = 1000000

\* C18: an evaluation of a discount code (validate_discount_code /
\* apply_discount) changes neither used_count nor the usage ledger, and after
\* it the evaluation of every code for every user and subtotal gives the same
\* result as before it.
C18_EvaluationReadsOnly ==
    [][/\ discount_codes' = discount_codes
       /\ discount_usage' = discount_usage
       /\ \A c \in CodeInputs, u \in AllUsers, t \in Subtotals :
            apply_discount(c, u, t)' = apply_discount(c, u, t)]_vars

\* SAVE20 with one use left and no usage record was evaluated for user 7 and
\* accepted; its counter is still 0 and the usage ledger still empty
C18_Witness ==
    /\ evaluation.code = "save20" /\ evaluation.user_id = 7
    /\ evaluation.success
    /\ discount_codes["SAVE20"].usage_limit = 1
    /\ discount_codes["SAVE20"].used_count = 0
    /\ discount_usage = <<>>

\* C19: a ledger fetch that fails during a poll (status other than 200, ok
\* false, malformed body, exception) counts as no match for that round:
\* verify_payment goes to its sleep instead of returning or raising, and it
\* returns (False, None) only once the deadline has passed.
C19_FailedFetchPollsOn ==
    /\ [][verify'.failed > verify.failed =>
            (verify'.pc = "sleep" /\ ~verify'.success)]_vars
    /\ [](verify.pc = "done" /\ ~verify.success =>
            verify.elapsed >= verify.timeout)

\* a call whose fetch failed polled on and found the payment in a later round
C19_Witness ==
    /\ verify.failed > 0
    /\ verify.pc = "done" /\ verify.success
    /\ verify.fetches > verify.failed

\* C20: verify_payment never matches a transaction that is not incoming to
\* the wallet (no in_msg, or a destination other than the wallet address),
\* even when its amount and its memo are the expected ones.
C20_OnlyIncomingMatched ==
    (verify.pc = "done" /\ verify.success) =>
        \A k \in 1..Len(ledger) :
            ledger[k].hash = verify.tx_hash =>
               (ledger[k].has_in_msg /\ ledger[k].destination = Wallet)

\* the newest transaction carries the expected amount and memo but goes to
\* another address; the call skipped it and accepted the one behind it
C20_Witness ==
    /\ verify.pc = "done" /\ verify.success
    /\ Len(ledger) = 2
    /\ ledger[1].has_in_msg /\ ledger[1].destination # Wallet
    /\ get_transaction_amount(ledger[1]) = verify.expected_amount
    /\ get_transaction_comment(ledger[1]) = verify.comment
    /\ ledger[2].hash = verify.tx_hash

\* C21: verify_payment never matches a transaction whose amount differs from
\* the expected amount by 1e-6 TON (one micro-TON, 1000 nano-TON) or more,
\* even when its memo is the expected one.
C21_EpsilonMicro ==
    (verify.pc = "done" /\ verify.success) =>
        \A k \in 1..Len(ledger) :
            ledger[k].hash = verify.tx_hash =>
               Abs(get_transaction_amount(ledger[k]) - verify.expected_amount) < 1

\* C22: verify_payment never matches a ledger transaction that carries no
\* memo (no text and no message body), whatever memo it was asked to find.
C22_NoMemoNoMatch ==
    (verify.pc = "done" /\ verify.success) =>
        \A k \in 1..Len(ledger) :
            ledger[k].hash = verify.tx_hash =>
               /\ ledger[k].has_in_msg
               /\ \/ ledger[k].msg_type = "msg.dataText" /\ ledger[k].text # ""
                  \/ ledger[k].message # ""

\* the newest transaction is incoming with the expected amount but without a
\* memo; the call skipped it and accepted the one behind it
C22_Witness ==
    /\ verify.pc = "done" /\ verify.success
    /\ Len(ledger) = 2
    /\ is_incoming_transaction(ledger[1])
    /\ get_transaction_amount(ledger[1]) = verify.expected_amount
    /\ ledger[1].text = "" /\ ledger[1].message = ""
    /\ ledger[2].hash = verify.tx_hash

\* C23: verify_payment terminates: every call returns, with a match or, once
\* the deadline has passed, with (False, None); it starts no fetch after the
\* deadline, also when every fetch fails.
C23_Terminates ==
    /\ <>(/\ verify.pc = "done"
          /\ \/ verify.success
             \/ verify.tx_hash = None /\ verify.elapsed >= verify.timeout)
    /\ [](verify.fetches > 0 =>
            (verify.fetches - 1) * CheckInterval < verify.timeout)

\* a call with a deadline of 25 s whose three fetches all failed has returned
\* (False, None)
C23_Witness ==
    /\ verify.pc = "done" /\ ~verify.success /\ verify.tx_hash = None
    /\ verify.timeout = 25
    /\ verify.fetches = 3 /\ verify.failed = 3

\* C24: the poll loop observes a cancellation at its next iteration: a
\* check_payment_status call whose order has been cancelled ends with its next
\* step, without another round of polling and without changing any order.
C24_CancelObserved ==
    [][\A u \in AllUsers, s \in Slots :
         (/\ calls[u][s].pc # "idle"
          /\ orders[calls[u][s].order_id].status = "cancelled"
          /\ calls'[u][s] # calls[u][s]) =>
            (calls'[u][s].pc = "idle" /\ orders' = orders)]_vars

\* C25: cancel_current_order moves an order to cancelled only from pending: no
\* step changes the status of a paid (or otherwise not pending) order to
\* cancelled.
C25_CancelOnlyPending ==
    [][\A o \in 1..Len(orders) :
         (orders[o].status # "cancelled" /\ orders'[o].status = "cancelled") =>
            orders[o].status = "pending"]_vars

\* an order was paid and a later order of the same user was cancelled
C25_Witness ==
    \E o, p \in 1..Len(orders) :
        /\ orders[o].user_id = orders[p].user_id
        /\ orders[o].status = "paid" /\ orders[p].status = "cancelled"
        /\ o < p

\* C26: a checkout started on an empty cart creates no order and stores no
\* Payment Intent in the session (process_payment, and start_checkout of the
\* first generation), and process_payment answers it with its failure
\* message.
C26_EmptyCartRejected ==
    [][\A u \in AllUsers :
         /\ cart[u] = <<>> =>
              /\ \A o \in (Len(orders) + 1)..Len(orders') : orders'[o].user_id # u
              /\ session'[u].state = "WAITING_PAYMENT" => session'[u] = session[u]
         /\ Len(g1_get_cart_items(u)) = 0 =>
              \A o \in (Len(g1_orders) + 1)..Len(g1_orders') : g1_orders'[o].user_id # u
         /\ answers'[u] = "Unable to process order" /\ answers[u] # answers'[u] =>
              orders' = orders /\ session' = session]_vars

\* user 7 pressed "pay" with an empty cart: the failure message is shown,
\* there is no order and the session holds no Payment Intent
C26_Witness ==
    /\ answers[7] = "Unable to process order"
    /\ cart[7] = <<>>
    /\ \A o \in 1..Len(orders) : orders[o].user_id # 7
    /\ session[7].state # "WAITING_PAYMENT"

\* order ids and user ids whose decimal digits overlap
MemoOrderIds == {1, 2, 12}
MemoUserIds == {7, 8, 27}

\* C27: the memo the verifier expects (the session's comment, copied into the
\* check_payment_status call) is exactly ORDER_<orderId>_<userId>, the memo
\* the payment instructions of that order show to its owner, and the memos
\* of distinct (orderId, userId) pairs are distinct.
C27_MemoOfOrder ==
    /\ \A u \in AllUsers :
         session[u].state = "WAITING_PAYMENT" =>
            /\ session[u].data.comment = ShownComment(session[u].data.order_id, u)
            /\ orders[session[u].data.order_id].user_id = u
    /\ \A u \in AllUsers, s \in Slots :
         calls[u][s].pc # "idle" =>
            calls[u][s].comment = ShownComment(calls[u][s].order_id, u)
    /\ \A o1, o2 \in MemoOrderIds, u1, u2 \in MemoUserIds :
         Comment(o1, u1) = Comment(o2, u2) => (o1 = o2 /\ u1 = u2)

\* a confirmation of the user's second order is polling for ORDER_2_7 while
\* one of the first order still polls for ORDER_1_7
C27_Witness ==
    /\ calls[7][1].pc # "idle" /\ calls[7][2].pc # "idle"
    /\ calls[7][1].comment = "ORDER_1_7"
    /\ calls[7][2].comment = "ORDER_2_7"
    /\ session[7].data.comment = "ORDER_2_7"

\* C28: an order has a payment_hash if and only if it is paid, and the
\* payment_hash of a paid order is the id of a ledger transaction that matches
\* the order's amount and memo.
C28_HashIffPaid ==
    \A o \in 1..Len(orders) :
        /\ orders[o].status = "paid" <=> orders[o].payment_hash # None
        /\ orders[o].status = "paid" =>
             \E k \in 1..Len(ledger) :
                 /\ ledger[k].hash = orders[o].payment_hash
                 /\ TxMatches(ledger[k], orders[o].final_amount,
                              Comment(o, orders[o].user_id))

\* one order is paid and carries the hash of its transaction, another one is
\* cancelled and carries none
C28_Witness ==
    \E o, p \in 1..Len(orders) :
        /\ orders[o].status = "paid" /\ orders[o].payment_hash = ledger[1].hash
        /\ orders[p].status = "cancelled" /\ orders[p].payment_hash = None

\* C29: check_payment_status starts a ledger poll only from a session in
\* WAITING_PAYMENT that records an order id, an amount and a memo: the order
\* exists, belongs to the user, and the poll looks for the amount and the memo
\* process_payment stored for it.
C29_PollAfterCheckout ==
    [][\A u \in AllUsers, s \in Slots :
         (calls[u][s].pc = "idle" /\ calls'[u][s].pc # "idle") =>
            /\ session[u].state = "WAITING_PAYMENT"
            /\ session[u].data.order_id \in 1..Len(orders)
            /\ session[u].data.comment # None
            /\ calls'[u][s].order_id = session[u].data.order_id
            /\ orders[calls'[u][s].order_id].user_id = u
            /\ calls'[u][s].amount = orders[calls'[u][s].order_id].final_amount
            /\ calls'[u][s].comment = Comment(calls'[u][s].order_id, u)]_vars

\* a poll for order 1 has started; the order is pending and the session holds
\* its Payment Intent
C29_Witness ==
    /\ calls[7][1].pc = "fetch" /\ calls[7][1].order_id = 1
    /\ Len(orders) = 1 /\ orders[1].status = "pending"
    /\ session[7].state = "WAITING_PAYMENT" /\ session[7].data.order_id = 1

\* C30: a checkout operation of one user (process_payment,
\* check_payment_status, cancel_current_order) changes no other user's
\* orders, cart or session, however the two users' operations interleave.
C30_UserIsolation ==
    [][\A u \in AllUsers :
         CheckoutStep(u) =>
            \A v \in AllUsers \ {u} :
                /\ cart'[v] = cart[v]
                /\ session'[v] = session[v]
                /\ \A o \in 1..Len(orders) :
                     orders[o].user_id = v => orders'[o] = orders[o]
                /\ \A o \in (Len(orders) + 1)..Len(orders') :
                     orders'[o].user_id # v]_vars

\* user 7's order is paid and its session cleared while user 8 still waits
\* for a payment with a pending order, a session and a cart of their own
C30_Witness ==
    \E o, p \in 1..Len(orders) :
        /\ orders[o].user_id = 7 /\ orders[o].status = "paid"
        /\ orders[p].user_id = 8 /\ orders[p].status = "pending"
        /\ session[7] = NoSession
        /\ session[8].state = "WAITING_PAYMENT" /\ session[8].data.order_id = p
        /\ cart[8] # <<>>
        /\ calls[8][1].pc # "idle"

\* C31: checkout start, payment confirmation and order cancellation never
\* change the stock_quantity of any product.
C31_StockUntouched ==
    [][\A u \in AllUsers :
         (CheckoutStep(u) \/ ProcessPaymentRejected(u)) =>
            \A p \in DOMAIN products :
                products'[p].stock_quantity = products[p].stock_quantity]_vars

\* one order of two units was paid and another one cancelled, and the stock
\* of the product is the two units it was
C31_Witness ==
    \E o, p \in 1..Len(orders) :
        /\ orders[o].status = "paid" /\ orders[p].status = "cancelled"
        /\ orders[o].products[1].quantity = 2
        /\ products = InitProducts

\* C34: every order process_payment creates holds only lines that agree with
\* the catalog at that moment: the product exists and is active, the quantity
\* is within the stock, and the unit price is the catalog price.
C34_OrderMatchesCatalog ==
    [][Len(orders') = Len(orders) + 1 =>
         LET order == orders'[Len(orders')]
         IN  \A i \in 1..Len(order.products) :
                LET line == order.products[i]
                IN  /\ line.product_id \in DOMAIN products
                    /\ products[line.product_id].active
                    /\ line.quantity <= products[line.product_id].stock_quantity
                    /\ line.price = products[line.product_id].price]_vars

\* C32: a Payment Intent (a WAITING_PAYMENT session with order id, amount and
\* memo) whose order is pending is removed or overwritten only by the
\* settlement or the cancellation of that order or by a timeout of its
\* confirmation; no other step changes it.
C32_IntentKept ==
    [][\A u \in AllUsers :
         (/\ session[u].state = "WAITING_PAYMENT"
          /\ session[u].data.order_id \in 1..Len(orders)
          /\ orders[session[u].data.order_id].status = "pending"
          /\ session'[u] # session[u]) =>
            \/ orders'[session[u].data.order_id].status \in {"paid", "cancelled"}
            \/ answers'[u] = "Payment not found yet" /\ answers'[u] # answers[u]]_vars

\* C33: an order that was marked paid by a settlement the process did not
\* finish is completed by a later confirmation: eventually its user's cart
\* has been cleared and, if it carries a discount code, its usage is recorded.
C33_Resumed ==
    \A o \in 1..MaxOrders :
        (/\ o \in 1..Len(orders)
         /\ orders[o].status = "paid"
         /\ settlements[o] = 0)
          ~> (/\ o \in 1..Len(orders)
              /\ cart[orders[o].user_id] = <<>>
              /\ orders[o].discount_code # None =>
                   \E k \in 1..Len(discount_usage) :
                       /\ discount_usage[k].order_id = o
                       /\ discount_usage[k].user_id = orders[o].user_id)

\* C35: one ledger transaction settles at most one order: no two distinct
\* orders are paid with the same payment_hash.
C35_OneOrderPerTransaction ==
    \A o, p \in 1..Len(orders) :
        (/\ o # p
         /\ orders[o].status = "paid"
         /\ orders[p].status = "paid") =>
            orders[o].payment_hash # orders[p].payment_hash

\* two orders of the same amount, of different users, are paid, each with the
\* transaction that carries its own memo
C35_Witness ==
    /\ Len(orders) = 2 /\ Len(ledger) = 2
    /\ orders[1].status = "paid" /\ orders[2].status = "paid"
    /\ orders[1].user_id # orders[2].user_id
    /\ orders[1].final_amount = orders[2].final_amount
    /\ orders[1].payment_hash # orders[2].payment_hash

\* C36: when a fetch succeeds and its listing holds an incoming transaction
\* with the expected amount and memo, verify_payment stops polling with that
\* fetch and returns (True, hash) with the hash of the first such transaction
\* in listing order.
C36_FirstMatchReturned ==
    [][(/\ verify.pc = "fetch"
        /\ verify'.fetches > verify.fetches
        /\ verify'.failed = verify.failed
        /\ \E i \in 1..Len(ledger) :
             i <= FetchLimit /\ TxMatches(ledger[i], verify.expected_amount, verify.comment)) =>
          /\ verify'.pc = "done" /\ verify'.success
          /\ \E i \in 1..Len(ledger) :
               /\ TxMatches(ledger[i], verify.expected_amount, verify.comment)
               /\ \A j \in 1..(i-1) :
                    ~TxMatches(ledger[j], verify.expected_amount, verify.comment)
               /\ verify'.tx_hash = ledger[i].hash]_vars

\* the listing held two different matching transactions and the call
\* returned the hash of the newer one, which is listed first
C36_Witness ==
    /\ verify.pc = "done" /\ verify.success
    /\ Len(ledger) = 2
    /\ TxMatches(ledger[1], verify.expected_amount, verify.comment)
    /\ TxMatches(ledger[2], verify.expected_amount, verify.comment)
    /\ ledger[1].hash # ledger[2].hash
    /\ verify.tx_hash = ledger[1].hash
    /\ verify.fetches = 2

\* C37: verify_payment fetches at least once whenever timeout > 0, and every
\* poll that does not match is followed by a full check interval of sleep
\* before the deadline is looked at again; with the timeout of 5 seconds that
\* check_payment_status passes, a call makes exactly one fetch, and returns
\* (False, None) only after the interval, when the deadline has passed.
C37_OneFetchThenInterval ==
    /\ (verify.pc = "done" /\ verify.timeout > 0) => verify.fetches >= 1
    /\ verify.pc = "fetch" => verify.elapsed = verify.fetches * CheckInterval
    /\ verify.pc = "sleep" => verify.elapsed = (verify.fetches - 1) * CheckInterval
    /\ (verify.pc = "done" /\ ~verify.success) =>
          /\ verify.elapsed = verify.fetches * CheckInterval
          /\ verify.elapsed >= verify.timeout
    /\ verify.timeout = CheckTimeout =>
          /\ verify.pc = "fetch" => verify.fetches = 0
          /\ verify.pc \in {"sleep", "done"} => verify.fetches = 1
          /\ (verify.pc = "done" /\ ~verify.success) =>
                verify.elapsed = CheckInterval /\ verify.elapsed > verify.timeout

\* a call with the timeout of 5 seconds polled a listing that held a
\* transaction, found no match, slept and returned (False, None)
C37_Witness ==
    /\ verify.timeout = CheckTimeout
    /\ verify.pc = "done" /\ ~verify.success
    /\ verify.fetches = 1 /\ verify.failed = 0
    /\ verify.elapsed = CheckInterval
    /\ Len(ledger) >= 1

\* C38: each process_payment on a valid cart appends a new pending order and
\* makes the session name it, leaving the earlier orders as they are, so a
\* user can have several pending orders; the session names the user's latest
\* order only, every poll starts for that order, and only that order can be
\* cancelled.
C38_SessionNamesLatestOrder ==
    /\ [](\A u \in AllUsers :
            (session[u].state = "WAITING_PAYMENT" /\ session[u].data.order_id # 0) =>
                /\ session[u].data.order_id \in 1..Len(orders)
                /\ orders[session[u].data.order_id].user_id = u
                /\ \A p \in (session[u].data.order_id + 1)..Len(orders) :
                     orders[p].user_id # u)
    /\ [][Len(orders') > Len(orders) =>
            /\ Len(orders') = Len(orders) + 1
            /\ \A o \in 1..Len(orders) : orders'[o] = orders[o]
            /\ orders'[Len(orders')].status = "pending"
            /\ session'[orders'[Len(orders')].user_id].state = "WAITING_PAYMENT"
            /\ session'[orders'[Len(orders')].user_id].data.order_id = Len(orders')]_vars
    /\ [][\A u \in AllUsers, s \in Slots :
            (calls[u][s].pc = "idle" /\ calls'[u][s].pc = "fetch") =>
                /\ calls'[u][s].order_id \in 1..Len(orders)
                /\ orders[calls'[u][s].order_id].user_id = u
                /\ \A p \in (calls'[u][s].order_id + 1)..Len(orders) :
                     orders[p].user_id # u]_vars
    /\ [][\A o \in 1..Len(orders) :
            (orders[o].status # "cancelled" /\ orders'[o].status = "cancelled") =>
                \A p \in (o + 1)..Len(orders) : orders[p].user_id # orders[o].user_id]_vars

\* one user has two orders: the later one was cancelled through the session,
\* the earlier one is still pending and no session or call names it
C38_Witness ==
    /\ Len(orders) = 2
    /\ orders[1].user_id = orders[2].user_id
    /\ orders[1].status = "pending"
    /\ orders[2].status = "cancelled"
    /\ session[orders[1].user_id].state # "WAITING_PAYMENT"
    /\ \A s \in Slots : calls[orders[1].user_id][s].pc = "idle"

\* C39: when check_payment_status confirms the payment of an order while the
\* user's cart holds more than the order does (items added after the order
\* was created), the whole cart is emptied, those items included.
C39_WholeCartCleared ==
    [][\A u \in AllUsers, s \in Slots :
        (/\ calls[u][s].pc = "fetch"
         /\ calls[u][s].order_id \in 1..Len(orders)
         /\ orders[calls[u][s].order_id].status = "pending"
         /\ orders'[calls[u][s].order_id].status = "paid"
         /\ \E i \in 1..Len(cart[u]) :
              \A j \in 1..Len(orders[calls[u][s].order_id].products) :
                  orders[calls[u][s].order_id].products[j].product_id = cart[u][i].product_id
                      => orders[calls[u][s].order_id].products[j].quantity < cart[u][i].quantity)
            => cart'[u] = <<>>]_vars

\* a confirmation is under way for a pending order whose payment is on the
\* ledger, and the cart holds a larger quantity than the order was created with
C39_Witness ==
    \E u \in AllUsers, s \in Slots :
        /\ calls[u][s].pc = "fetch"
        /\ calls[u][s].order_id \in 1..Len(orders)
        /\ orders[calls[u][s].order_id].status = "pending"
        /\ session[u].data.order_id = calls[u][s].order_id
        /\ verify_poll(Window(ledger, FetchLimit), calls[u][s].amount,
                       calls[u][s].comment).success
        /\ Len(orders[calls[u][s].order_id].products) = 1
        /\ Len(cart[u]) = 1
        /\ cart[u][1].product_id = orders[calls[u][s].order_id].products[1].product_id
        /\ cart[u][1].quantity > orders[calls[u][s].order_id].products[1].quantity

\* C40: an order created by the first-generation start_checkout stores one
\* line for every cart item whose product exists, in stock or not, and its
\* total_amount is the sum of the lines whose quantity the stock covers at
\* that moment; total_amount equals the sum of the stored lines' total_price
\* exactly when every stored line is in stock.
C40_StoredLinesChargedInStock ==
    /\ [](\A o \in 1..Len(g1_orders) :
            LET lines == g1_orders[o].order_data
                charged == SumSeq([k \in 1..Len(lines) |->
                               IF lines[k].in_stock THEN lines[k].total_price ELSE 0])
                stored == SumSeq([k \in 1..Len(lines) |-> lines[k].total_price])
            IN  /\ g1_orders[o].total_amount = charged
                /\ (g1_orders[o].total_amount = stored) <=>
                       (\A k \in 1..Len(lines) : lines[k].in_stock))
    /\ [][Len(g1_orders') > Len(g1_orders) =>
            LET new == g1_orders'[Len(g1_orders')]
                c == g1_get_cart(new.user_id)
                present == {i \in 1..Len(c) : c[i].product_id \in DOMAIN g1_products}
            IN  /\ Len(new.order_data) = Cardinality(present)
                /\ \A i \in present : \E k \in 1..Len(new.order_data) :
                       /\ new.order_data[k].product_id = c[i].product_id
                       /\ new.order_data[k].quantity = c[i].quantity
                /\ \A k \in 1..Len(new.order_data) :
                       LET line == new.order_data[k]
                           product == g1_products[line.product_id]
                       IN  /\ line.price = product.price
                           /\ line.total_price = product.price * line.quantity
                           /\ line.in_stock <=> (line.quantity <= product.stock_quantity)]_vars

\* an order stores a line that the stock no longer covered at checkout and
\* charges nothing for it: its total_amount is below what its lines add up to
C40_Witness ==
    \E o \in 1..Len(g1_orders) :
        /\ Len(g1_orders[o].order_data) >= 1
        /\ ~g1_orders[o].order_data[1].in_stock
        /\ g1_orders[o].order_data[1].total_price > 0
        /\ g1_orders[o].total_amount <
             SumSeq([k \in 1..Len(g1_orders[o].order_data) |->
                       g1_orders[o].order_data[k].total_price])

====
